---------------------------- MODULE Spec2Model ----------------------------
(***************************************************************************)
(* Record store + audit log + access control of the HOSPIX backend.        *)
(*                                                                         *)
(* The three StableBTreeMaps (doctors, patients, auditLogs) and the        *)
(* Express handlers of src/src/backend/index.ts, together with the         *)
(* deletePatient handler, which only src/backup.ts defines.  One action    *)
(* is one request handled to completion; res is the HTTP response the      *)
(* handler sent.                                                           *)
(*                                                                         *)
(* A JavaScript object is a function from property names to values; a      *)
(* property whose value is undefined is a property that is not in the      *)
(* DOMAIN.  A timestamp (Date.toISOString, millisecond resolution) is the  *)
(* number of the millisecond.  A uuid is "d<n>" / "p<n>", n the number of  *)
(* ids of that kind issued so far: fresh, never reused.                    *)
(***************************************************************************)
EXTENDS Integers, Sequences, FiniteSets, TLC

VARIABLES doctors, patients, auditLogs, now, issuedDoctors, issuedPatients, res

vars == <<doctors, patients, auditLogs, now, issuedDoctors, issuedPatients, res>>

stores == <<doctors, patients, auditLogs>>

(***************************************************************************)
(* Bounds of the model.                                                    *)
(***************************************************************************)
MaxDoctors == 2

MaxPatients == 1

MaxReports == 2

MaxTime == 1

(***************************************************************************)
(* enum Role                                                               *)
(***************************************************************************)
FullAccess == "FullAccess"

ReadOnly == "ReadOnly"

ExternalConsultant == "ExternalConsultant"

Role == {FullAccess, ReadOnly, ExternalConsultant}

(***************************************************************************)
(* uuidv4(): the n-th identifier issued.                                   *)
(***************************************************************************)
DoctorUuid(n) == "d" \o ToString(n)

PatientUuid(n) == "p" \o ToString(n)

DoctorIds == {DoctorUuid(n) : n \in 1..MaxDoctors}

PatientIds == {PatientUuid(n) : n \in 1..MaxPatients}

(***************************************************************************)
(* StableBTreeMap: insert is an upsert, remove of an absent key does       *)
(* nothing, get of an absent key is falsy (containsKey is its test).       *)
(***************************************************************************)
insert(map, key, value) ==
    [k \in DOMAIN map \cup {key} |-> IF k = key THEN value ELSE map[k]]

remove(map, key) == [k \in DOMAIN map \ {key} |-> map[k]]

containsKey(map, key) == key \in DOMAIN map

EmptyMap == [k \in {} |-> k]

(***************************************************************************)
(* JavaScript values.  !v for a string property and for a number property; *)
(* o.k = src.f where src.f may be undefined.                               *)
(***************************************************************************)
NotString(o, k) == k \notin DOMAIN o \/ o[k] = ""

NotNumber(o, k) == k \notin DOMAIN o \/ o[k] = 0

Assign(o, k, src, f) ==
    IF f \in DOMAIN src
    THEN [x \in DOMAIN o \cup {k} |-> IF x = k THEN src[f] ELSE o[x]]
    ELSE [x \in DOMAIN o \ {k} |-> o[x]]

(***************************************************************************)
(* Array.prototype.push and Array.prototype.splice(index, 1).              *)
(***************************************************************************)
\* Faulty variant: the item is put first instead of last.
unshift(array, item) == <<item>> \o array

push(array, item) == Append(array, item)

\* Faulty variant: the last element is removed whatever the index.
pop(array, index) == SubSeq(array, 1, Len(array) - 1)

splice(array, index) ==
    [j \in 1..(Len(array) - 1) |-> IF j <= index THEN array[j] ELSE array[j + 1]]

(***************************************************************************)
(* Number.parseInt on a string given as its characters (no leading blank,  *)
(* no 0x prefix): an optional sign, then the longest run of leading        *)
(* digits; NaN when there is no digit.                                     *)
(***************************************************************************)
Digits == <<"0", "1", "2", "3", "4", "5", "6", "7", "8", "9">>

IsDigit(c) == \E d \in 1..10 : Digits[d] = c

DigitValue(c) == (CHOOSE d \in 1..10 : Digits[d] = c) - 1

RECURSIVE LeadingDigits(_, _)
LeadingDigits(chars, acc) ==
    IF chars = <<>> \/ ~IsDigit(Head(chars))
    THEN acc
    ELSE LeadingDigits(Tail(chars), 10 * acc + DigitValue(Head(chars)))

NaN == [isNaN |-> TRUE, value |-> 0]

parseInt(chars) ==
    LET negative == chars # <<>> /\ Head(chars) = "-"
        signed == chars # <<>> /\ Head(chars) \in {"-", "+"}
        rest == IF signed THEN Tail(chars) ELSE chars
    IN  IF rest = <<>> \/ ~IsDigit(Head(rest))
        THEN NaN
        ELSE [isNaN |-> FALSE,
              value |-> IF negative THEN 0 - LeadingDigits(rest, 0)
                                    ELSE LeadingDigits(rest, 0)]

(***************************************************************************)
(* reportIndex >= 0 && reportIndex < patient.reports.length: every         *)
(* comparison with NaN is false.                                           *)
(***************************************************************************)
\* Faulty variant: the upper limit is tested with <= instead of <.
IndexUpToLength(reportIndex, array) ==
    /\ ~reportIndex.isNaN
    /\ reportIndex.value >= 0
    /\ reportIndex.value <= Len(array)

IndexInRange(reportIndex, array) ==
    /\ ~reportIndex.isNaN
    /\ reportIndex.value >= 0
    /\ reportIndex.value < Len(array)

(***************************************************************************)
(* Request inputs.                                                         *)
(***************************************************************************)
DoctorBodies ==
    {[name |-> "Dr. A", role |-> r, department |-> "Cardio"] : r \in Role}
    \cup {[role |-> FullAccess, department |-> "Cardio"],
          [name |-> "Dr. A", role |-> "", department |-> "Cardio"],
          [name |-> "Dr. A", role |-> ReadOnly]}

ValidPatientBodies ==
    {[name |-> "P1", age |-> 40, currentTreatment |-> "rest", assignedDoctor |-> d]
        : d \in DoctorIds}
    \cup {[name |-> "P1", age |-> 40, medicalHistory |-> <<"flu">>,
           currentTreatment |-> "rest", assignedDoctor |-> d] : d \in DoctorIds}

InvalidPatientBodies ==
    {[age |-> 40, currentTreatment |-> "rest", assignedDoctor |-> "d1"],
     [name |-> "", age |-> 40, currentTreatment |-> "rest", assignedDoctor |-> "d1"],
     [name |-> "P1", currentTreatment |-> "rest", assignedDoctor |-> "d1"],
     [name |-> "P1", age |-> 0, currentTreatment |-> "rest", assignedDoctor |-> "d1"],
     [name |-> "P1", age |-> 40, currentTreatment |-> "rest"],
     [name |-> "P1", age |-> 40, currentTreatment |-> "rest", assignedDoctor |-> ""]}

PatientBodies == ValidPatientBodies \cup InvalidPatientBodies

Reports == {"r1", "r2"}

ReportIds == {<<"0">>, <<"1">>, <<"2">>, <<"-", "1">>, <<"x">>, <<"1", "x">>}

(***************************************************************************)
(* new Date(): the clock never runs backwards, and two reads may fall in   *)
(* the same millisecond.                                                   *)
(***************************************************************************)
Instants == {t \in {now, now + 1} : t <= MaxTime}

Response(op, status, body) == [op |-> op, status |-> status, body |-> body]

Init ==
    /\ doctors = EmptyMap
    /\ patients = EmptyMap
    /\ auditLogs = EmptyMap
    /\ now = 0
    /\ issuedDoctors = 0
    /\ issuedPatients = 0
    /\ res = Response("none", 0, [message |-> ""])

(***************************************************************************)
(* validatePatientInput                                                    *)
(***************************************************************************)
\* Faulty variant: an age is only required to be given, so age 0 passes.
validateAgeGiven(input) ==
    ~(\/ NotString(input, "patientId")
      \/ NotString(input, "name")
      \/ "age" \notin DOMAIN input
      \/ NotString(input, "assignedDoctor"))

validatePatientInput(input) ==
    ~(\/ NotString(input, "patientId")
      \/ NotString(input, "name")
      \/ NotNumber(input, "age")
      \/ NotString(input, "assignedDoctor"))

(***************************************************************************)
(* logAction(userId, action), the clock reading timestamp.                 *)
(***************************************************************************)
logAction(userId, action, timestamp) ==
    /\ auditLogs' = insert(auditLogs, timestamp, userId \o " - " \o action)
    /\ now' = timestamp

NoLog == UNCHANGED <<auditLogs, now>>

(***************************************************************************)
(* POST /doctors                                                           *)
(***************************************************************************)
\* Faulty variant: the record is stored under the doctor's name.
CreateDoctorKeyedByName(body) ==
    IF NotString(body, "name") \/ NotString(body, "role") \/ NotString(body, "department")
    THEN /\ res' = Response("createDoctor", 400, [error |-> "Invalid input"])
         /\ NoLog
         /\ UNCHANGED <<doctors, patients, issuedDoctors, issuedPatients>>
    ELSE /\ issuedDoctors < MaxDoctors
         /\ LET newDoctor == [doctorId |-> DoctorUuid(issuedDoctors + 1),
                              name |-> body.name,
                              role |-> body.role,
                              department |-> body.department]
            IN  /\ doctors' = insert(doctors, newDoctor.name, newDoctor)
                /\ \E timestamp \in Instants :
                       logAction(newDoctor.doctorId, "Added new doctor", timestamp)
                /\ res' = Response("createDoctor", 201, newDoctor)
         /\ issuedDoctors' = issuedDoctors + 1
         /\ UNCHANGED <<patients, issuedPatients>>

CreateDoctor(body) ==
    IF NotString(body, "name") \/ NotString(body, "role") \/ NotString(body, "department")
    THEN /\ res' = Response("createDoctor", 400, [error |-> "Invalid input"])
         /\ NoLog
         /\ UNCHANGED <<doctors, patients, issuedDoctors, issuedPatients>>
    ELSE /\ issuedDoctors < MaxDoctors
         /\ LET newDoctor == [doctorId |-> DoctorUuid(issuedDoctors + 1),
                              name |-> body.name,
                              role |-> body.role,
                              department |-> body.department]
            IN  /\ doctors' = insert(doctors, newDoctor.doctorId, newDoctor)
                /\ \E timestamp \in Instants :
                       logAction(newDoctor.doctorId, "Added new doctor", timestamp)
                /\ res' = Response("createDoctor", 201, newDoctor)
         /\ issuedDoctors' = issuedDoctors + 1
         /\ UNCHANGED <<patients, issuedPatients>>

(***************************************************************************)
(* GET /doctors/:doctorId                                                  *)
(***************************************************************************)
getDoctor(map, doctorId) ==
    IF containsKey(map, doctorId)
    THEN Response("getDoctor", 200, map[doctorId])
    ELSE Response("getDoctor", 404, [error |-> "Doctor not found"])

GetDoctor(doctorId) ==
    /\ res' = getDoctor(doctors, doctorId)
    /\ NoLog
    /\ UNCHANGED <<doctors, patients, issuedDoctors, issuedPatients>>

(***************************************************************************)
(* POST /patients                                                          *)
(***************************************************************************)
\* limit: the number of patient ids that the specification lets be issued.
CreatePatientUpTo(body, limit) ==
    LET id == PatientUuid(issuedPatients + 1)
        patientInput == Assign(body, "patientId", [patientId |-> id], "patientId")
    IN  IF ~validatePatientInput(patientInput)
        THEN /\ res' = Response("createPatient", 400, [error |-> "Invalid patient data"])
             /\ NoLog
             /\ UNCHANGED <<doctors, patients, issuedDoctors, issuedPatients>>
        ELSE LET withHistory ==
                     IF "medicalHistory" \in DOMAIN body
                     THEN [medicalHistory |-> body.medicalHistory]
                     ELSE [medicalHistory |-> <<>>]
                 newPatient ==
                     Assign(
                       Assign([patientId |-> id,
                               name |-> body.name,
                               age |-> body.age,
                               assignedDoctor |-> body.assignedDoctor,
                               reports |-> <<>>],
                              "medicalHistory", withHistory, "medicalHistory"),
                       "currentTreatment", body, "currentTreatment")
             IN  /\ issuedPatients < limit
                 /\ patients' = insert(patients, newPatient.patientId, newPatient)
                 /\ \E timestamp \in Instants :
                        logAction(body.assignedDoctor,
                                  "Added patient record: " \o newPatient.patientId,
                                  timestamp)
                 /\ res' = Response("createPatient", 201, [newPatient |-> newPatient])
                 /\ issuedPatients' = issuedPatients + 1
                 /\ UNCHANGED <<doctors, issuedDoctors>>

CreatePatient(body) == CreatePatientUpTo(body, MaxPatients)

(***************************************************************************)
(* GET /patients/:patientId                                                *)
(***************************************************************************)
getPatient(map, patientId) ==
    IF containsKey(map, patientId)
    THEN Response("getPatient", 200, map[patientId])
    ELSE Response("getPatient", 404, [error |-> "Patient not found"])

\* Faulty variant: viewing a patient is written to the audit log.
GetPatientLogsView(patientId) ==
    /\ res' = getPatient(patients, patientId)
    /\ IF containsKey(patients, patientId)
       THEN \E timestamp \in Instants :
                logAction(patients[patientId].assignedDoctor,
                          "Viewed patient record: " \o patientId, timestamp)
       ELSE NoLog
    /\ UNCHANGED <<doctors, patients, issuedDoctors, issuedPatients>>

GetPatient(patientId) ==
    /\ res' = getPatient(patients, patientId)
    /\ NoLog
    /\ UNCHANGED <<doctors, patients, issuedDoctors, issuedPatients>>

(***************************************************************************)
(* PUT /patients/:patientId                                                *)
(***************************************************************************)
\* Faulty variant: the patient is looked up before the input is validated.
UpdatePatientLookupFirst(patientId, body) ==
    LET patientInput == Assign(body, "patientId", [patientId |-> patientId], "patientId")
    IN  IF ~containsKey(patients, patientId)
        THEN /\ res' = Response("updatePatient", 404, [error |-> "Patient not found"])
             /\ NoLog
             /\ UNCHANGED <<doctors, patients, issuedDoctors, issuedPatients>>
        ELSE IF ~validatePatientInput(patientInput)
        THEN /\ res' = Response("updatePatient", 400, [error |-> "Invalid patient data"])
             /\ NoLog
             /\ UNCHANGED <<doctors, patients, issuedDoctors, issuedPatients>>
        ELSE LET patient ==
                     Assign(Assign(Assign(Assign(Assign(patients[patientId],
                         "name", body, "name"),
                         "age", body, "age"),
                         "medicalHistory", body, "medicalHistory"),
                         "currentTreatment", body, "currentTreatment"),
                         "assignedDoctor", body, "assignedDoctor")
             IN  /\ patients' = insert(patients, patientId, patient)
                 /\ \E timestamp \in Instants :
                        logAction(body.assignedDoctor,
                                  "Updated patient record: " \o patientId, timestamp)
                 /\ res' = Response("updatePatient", 200, patient)
                 /\ UNCHANGED <<doctors, issuedDoctors, issuedPatients>>

UpdatePatient(patientId, body) ==
    LET patientInput == Assign(body, "patientId", [patientId |-> patientId], "patientId")
    IN  IF ~validatePatientInput(patientInput)
        THEN /\ res' = Response("updatePatient", 400, [error |-> "Invalid patient data"])
             /\ NoLog
             /\ UNCHANGED <<doctors, patients, issuedDoctors, issuedPatients>>
        ELSE IF containsKey(patients, patientId)
        THEN LET patient ==
                     Assign(Assign(Assign(Assign(Assign(patients[patientId],
                         "name", body, "name"),
                         "age", body, "age"),
                         "medicalHistory", body, "medicalHistory"),
                         "currentTreatment", body, "currentTreatment"),
                         "assignedDoctor", body, "assignedDoctor")
             IN  /\ patients' = insert(patients, patientId, patient)
                 /\ \E timestamp \in Instants :
                        logAction(body.assignedDoctor,
                                  "Updated patient record: " \o patientId, timestamp)
                 /\ res' = Response("updatePatient", 200, patient)
                 /\ UNCHANGED <<doctors, issuedDoctors, issuedPatients>>
        ELSE /\ res' = Response("updatePatient", 404, [error |-> "Patient not found"])
             /\ NoLog
             /\ UNCHANGED <<doctors, patients, issuedDoctors, issuedPatients>>

(***************************************************************************)
(* PUT /patients/:patientId/reports                                        *)
(***************************************************************************)
\* Faulty variant: the report is logged under the actor "admin".
AddReportLogsAdmin(patientId, report) ==
    IF containsKey(patients, patientId)
    THEN LET patient == [patients[patientId] EXCEPT
                             !.reports = push(patients[patientId].reports, report)]
         IN  /\ Len(patients[patientId].reports) < MaxReports
             /\ patients' = insert(patients, patientId, patient)
             /\ \E timestamp \in Instants :
                    logAction("admin",
                              "Added report for patient: " \o patientId, timestamp)
             /\ res' = Response("addReport", 200, [array |-> patient.reports])
             /\ UNCHANGED <<doctors, issuedDoctors, issuedPatients>>
    ELSE /\ res' = Response("addReport", 404, [error |-> "Patient not found"])
         /\ NoLog
         /\ UNCHANGED <<doctors, patients, issuedDoctors, issuedPatients>>

\* Faulty variant: the record is written back with the new report alone, so the
\* reports added by earlier requests are lost.
AddReportLosesEarlier(patientId, report) ==
    IF containsKey(patients, patientId)
    THEN LET patient == [patients[patientId] EXCEPT !.reports = push(<<>>, report)]
         IN  /\ Len(patients[patientId].reports) < MaxReports
             /\ patients' = insert(patients, patientId, patient)
             /\ \E timestamp \in Instants :
                    logAction(patient.assignedDoctor,
                              "Added report for patient: " \o patientId, timestamp)
             /\ res' = Response("addReport", 200, [array |-> patient.reports])
             /\ UNCHANGED <<doctors, issuedDoctors, issuedPatients>>
    ELSE /\ res' = Response("addReport", 404, [error |-> "Patient not found"])
         /\ NoLog
         /\ UNCHANGED <<doctors, patients, issuedDoctors, issuedPatients>>

AddReport(patientId, report) ==
    IF containsKey(patients, patientId)
    THEN LET patient == [patients[patientId] EXCEPT
                             !.reports = push(patients[patientId].reports, report)]
         IN  /\ Len(patients[patientId].reports) < MaxReports
             /\ patients' = insert(patients, patientId, patient)
             /\ \E timestamp \in Instants :
                    logAction(patient.assignedDoctor,
                              "Added report for patient: " \o patientId, timestamp)
             /\ res' = Response("addReport", 200, [array |-> patient.reports])
             /\ UNCHANGED <<doctors, issuedDoctors, issuedPatients>>
    ELSE /\ res' = Response("addReport", 404, [error |-> "Patient not found"])
         /\ NoLog
         /\ UNCHANGED <<doctors, patients, issuedDoctors, issuedPatients>>

(***************************************************************************)
(* GET /patients/:patientId/reports                                        *)
(***************************************************************************)
listReports(map, patientId) ==
    IF containsKey(map, patientId)
    THEN Response("listReports", 200, [array |-> map[patientId].reports])
    ELSE Response("listReports", 404, [error |-> "Patient not found"])

ListReports(patientId) ==
    /\ res' = listReports(patients, patientId)
    /\ NoLog
    /\ UNCHANGED <<doctors, patients, issuedDoctors, issuedPatients>>

(***************************************************************************)
(* DELETE /patients/:patientId/reports/:reportId                           *)
(***************************************************************************)
DeleteReport(patientId, reportId) ==
    IF containsKey(patients, patientId)
    THEN LET reportIndex == parseInt(reportId)
         IN  IF IndexInRange(reportIndex, patients[patientId].reports)
             THEN LET patient ==
                          [patients[patientId] EXCEPT
                              !.reports = splice(patients[patientId].reports,
                                                 reportIndex.value)]
                  IN  /\ patients' = insert(patients, patientId, patient)
                      /\ \E timestamp \in Instants :
                             logAction(patient.assignedDoctor,
                                       "Deleted report for patient: " \o patientId,
                                       timestamp)
                      /\ res' = Response("deleteReport", 200,
                                         [message |-> "Report deleted successfully"])
                      /\ UNCHANGED <<doctors, issuedDoctors, issuedPatients>>
             ELSE /\ res' = Response("deleteReport", 404, [error |-> "Report not found"])
                  /\ NoLog
                  /\ UNCHANGED <<doctors, patients, issuedDoctors, issuedPatients>>
    ELSE /\ res' = Response("deleteReport", 404, [error |-> "Patient not found"])
         /\ NoLog
         /\ UNCHANGED <<doctors, patients, issuedDoctors, issuedPatients>>

(***************************************************************************)
(* PUT /assignDoctor                                                       *)
(***************************************************************************)
\* Faulty variant: the doctor is not looked up before it is assigned.
AssignDoctorUnchecked(patientId, doctorId) ==
    IF ~containsKey(patients, patientId)
    THEN /\ res' = Response("assignDoctor", 404, [error |-> "Patient or Doctor not found"])
         /\ NoLog
         /\ UNCHANGED <<doctors, patients, issuedDoctors, issuedPatients>>
    ELSE LET patient == [patients[patientId] EXCEPT !.assignedDoctor = doctorId]
         IN  /\ patients' = insert(patients, patientId, patient)
             /\ \E timestamp \in Instants :
                    logAction(doctorId, "Assigned to patient: " \o patientId, timestamp)
             /\ res' = Response("assignDoctor", 200,
                                [message |-> "Doctor assigned successfully"])
             /\ UNCHANGED <<doctors, issuedDoctors, issuedPatients>>

\* Faulty variant: only a doctor with FullAccess may be assigned.
AssignDoctorFullAccessOnly(patientId, doctorId) ==
    IF ~containsKey(patients, patientId) \/ ~containsKey(doctors, doctorId)
    THEN /\ res' = Response("assignDoctor", 404, [error |-> "Patient or Doctor not found"])
         /\ NoLog
         /\ UNCHANGED <<doctors, patients, issuedDoctors, issuedPatients>>
    ELSE IF doctors[doctorId].role # FullAccess
    THEN /\ res' = Response("assignDoctor", 403,
                [error |-> "Doctor does not have permission to delete patient"])
         /\ NoLog
         /\ UNCHANGED <<doctors, patients, issuedDoctors, issuedPatients>>
    ELSE LET doctor == doctors[doctorId]
             patient == [patients[patientId] EXCEPT !.assignedDoctor = doctor.doctorId]
         IN  /\ patients' = insert(patients, patientId, patient)
             /\ \E timestamp \in Instants :
                    logAction(doctor.doctorId, "Assigned to patient: " \o patientId,
                              timestamp)
             /\ res' = Response("assignDoctor", 200,
                                [message |-> "Doctor assigned successfully"])
             /\ UNCHANGED <<doctors, issuedDoctors, issuedPatients>>

AssignDoctor(patientId, doctorId) ==
    IF ~containsKey(patients, patientId) \/ ~containsKey(doctors, doctorId)
    THEN /\ res' = Response("assignDoctor", 404, [error |-> "Patient or Doctor not found"])
         /\ NoLog
         /\ UNCHANGED <<doctors, patients, issuedDoctors, issuedPatients>>
    ELSE LET doctor == doctors[doctorId]
             patient == [patients[patientId] EXCEPT !.assignedDoctor = doctor.doctorId]
         IN  /\ patients' = insert(patients, patientId, patient)
             /\ \E timestamp \in Instants :
                    logAction(doctor.doctorId, "Assigned to patient: " \o patientId,
                              timestamp)
             /\ res' = Response("assignDoctor", 200,
                                [message |-> "Doctor assigned successfully"])
             /\ UNCHANGED <<doctors, issuedDoctors, issuedPatients>>

(***************************************************************************)
(* patients.keys(): the keys in the store's order, which for the ids       *)
(* issued here is the order of issue.                                      *)
(***************************************************************************)
RECURSIVE keysFrom(_, _)
keysFrom(map, n) ==
    IF n > issuedPatients
    THEN <<>>
    ELSE IF containsKey(map, PatientUuid(n))
    THEN <<PatientUuid(n)>> \o keysFrom(map, n + 1)
    ELSE keysFrom(map, n + 1)

keys(map) == keysFrom(map, 1)

summary(patient) ==
    Assign([patientId |-> patient.patientId,
            name |-> patient.name,
            assignedDoctor |-> patient.assignedDoctor,
            reports |-> patient.reports],
           "currentTreatment", patient, "currentTreatment")

(***************************************************************************)
(* GET /generateReports                                                    *)
(***************************************************************************)
GenerateReports ==
    LET order == keys(patients)
        reportData == [j \in 1..Len(order) |-> summary(patients[order[j]])]
    IN  /\ \E timestamp \in Instants :
               logAction("admin", "Generated patient reports", timestamp)
        /\ res' = Response("generateReports", 200, [reportData |-> reportData])
        /\ UNCHANGED <<doctors, patients, issuedDoctors, issuedPatients>>

(***************************************************************************)
(* DELETE /deletePatient/:patientId/:doctorId (src/backup.ts; the doctor   *)
(* store is read by the doctor's id as the other handlers store it).       *)
(***************************************************************************)
\* Faulty variant: the role of the requesting doctor is not consulted.
DeletePatientAnyRole(patientId, doctorId) ==
    IF ~containsKey(doctors, doctorId)
    THEN /\ res' = Response("deletePatient", 404, [error |-> "Doctor not found"])
         /\ NoLog
         /\ UNCHANGED <<doctors, patients, issuedDoctors, issuedPatients>>
    ELSE /\ patients' = remove(patients, patientId)
         /\ \E timestamp \in Instants :
                logAction(doctorId, "Deleted patient record: " \o patientId, timestamp)
         /\ res' = Response("deletePatient", 200,
                            [message |-> "Patient deleted successfully"])
         /\ UNCHANGED <<doctors, issuedDoctors, issuedPatients>>

\* Faulty variant: a refused deletion is written to the audit log.
DeletePatientLogsDenial(patientId, doctorId) ==
    IF ~containsKey(doctors, doctorId)
    THEN /\ res' = Response("deletePatient", 404, [error |-> "Doctor not found"])
         /\ NoLog
         /\ UNCHANGED <<doctors, patients, issuedDoctors, issuedPatients>>
    ELSE LET doctor == doctors[doctorId]
         IN  IF doctor.role = FullAccess
             THEN /\ patients' = remove(patients, patientId)
                  /\ \E timestamp \in Instants :
                         logAction(doctor.doctorId,
                                   "Deleted patient record: " \o patientId, timestamp)
                  /\ res' = Response("deletePatient", 200,
                                     [message |-> "Patient deleted successfully"])
                  /\ UNCHANGED <<doctors, issuedDoctors, issuedPatients>>
             ELSE /\ res' = Response("deletePatient", 403,
                         [error |-> "Doctor does not have permission to delete patient"])
                  /\ \E timestamp \in Instants :
                         logAction(doctor.doctorId,
                                   "Denied deleting patient record: " \o patientId,
                                   timestamp)
                  /\ UNCHANGED <<doctors, patients, issuedDoctors, issuedPatients>>

\* Faulty variant: the deletion empties the patient store.
DeletePatientClearsStore(patientId, doctorId) ==
    IF ~containsKey(doctors, doctorId)
    THEN /\ res' = Response("deletePatient", 404, [error |-> "Doctor not found"])
         /\ NoLog
         /\ UNCHANGED <<doctors, patients, issuedDoctors, issuedPatients>>
    ELSE LET doctor == doctors[doctorId]
         IN  IF doctor.role = FullAccess
             THEN /\ patients' = EmptyMap
                  /\ \E timestamp \in Instants :
                         logAction(doctor.doctorId,
                                   "Deleted patient record: " \o patientId, timestamp)
                  /\ res' = Response("deletePatient", 200,
                                     [message |-> "Patient deleted successfully"])
                  /\ UNCHANGED <<doctors, issuedDoctors, issuedPatients>>
             ELSE /\ res' = Response("deletePatient", 403,
                         [error |-> "Doctor does not have permission to delete patient"])
                  /\ NoLog
                  /\ UNCHANGED <<doctors, patients, issuedDoctors, issuedPatients>>

DeletePatient(patientId, doctorId) ==
    IF ~containsKey(doctors, doctorId)
    THEN /\ res' = Response("deletePatient", 404, [error |-> "Doctor not found"])
         /\ NoLog
         /\ UNCHANGED <<doctors, patients, issuedDoctors, issuedPatients>>
    ELSE LET doctor == doctors[doctorId]
         IN  IF doctor.role = FullAccess
             THEN /\ patients' = remove(patients, patientId)
                  /\ \E timestamp \in Instants :
                         logAction(doctor.doctorId,
                                   "Deleted patient record: " \o patientId, timestamp)
                  /\ res' = Response("deletePatient", 200,
                                     [message |-> "Patient deleted successfully"])
                  /\ UNCHANGED <<doctors, issuedDoctors, issuedPatients>>
             ELSE /\ res' = Response("deletePatient", 403,
                         [error |-> "Doctor does not have permission to delete patient"])
                  /\ NoLog
                  /\ UNCHANGED <<doctors, patients, issuedDoctors, issuedPatients>>

Next ==
    \/ \E body \in DoctorBodies : CreateDoctor(body)
    \/ \E doctorId \in DoctorIds : GetDoctor(doctorId)
    \/ \E body \in PatientBodies : CreatePatient(body)
    \/ \E patientId \in PatientIds : GetPatient(patientId)
    \/ \E patientId \in PatientIds, body \in PatientBodies : UpdatePatient(patientId, body)
    \/ \E patientId \in PatientIds, report \in Reports : AddReport(patientId, report)
    \/ \E patientId \in PatientIds : ListReports(patientId)
    \/ \E patientId \in PatientIds, reportId \in ReportIds : DeleteReport(patientId, reportId)
    \/ \E patientId \in PatientIds, doctorId \in DoctorIds : AssignDoctor(patientId, doctorId)
    \/ GenerateReports
    \/ \E patientId \in PatientIds, doctorId \in DoctorIds : DeletePatient(patientId, doctorId)

Spec == Init /\ [][Next]_vars

(***************************************************************************)
(* The audit store refusing a write: auditLogs.insert throws inside         *)
(* logAction.  Every handler calls logAction inside its try block, after    *)
(* its own store write and before it answers, so the catch block answers    *)
(* 500 with the message of the error and nothing is logged.                 *)
(***************************************************************************)
InsertError == "insert failed"

caught(op) == Response(op, 500, [error |-> InsertError])

CreateDoctorLogThrows(body) ==
    /\ ~(NotString(body, "name") \/ NotString(body, "role") \/ NotString(body, "department"))
    /\ issuedDoctors < MaxDoctors
    /\ LET newDoctor == [doctorId |-> DoctorUuid(issuedDoctors + 1),
                         name |-> body.name,
                         role |-> body.role,
                         department |-> body.department]
       IN  doctors' = insert(doctors, newDoctor.doctorId, newDoctor)
    /\ NoLog
    /\ res' = caught("createDoctor")
    /\ issuedDoctors' = issuedDoctors + 1
    /\ UNCHANGED <<patients, issuedPatients>>

CreatePatientLogThrows(body) ==
    LET id == PatientUuid(issuedPatients + 1)
        patientInput == Assign(body, "patientId", [patientId |-> id], "patientId")
        withHistory ==
            IF "medicalHistory" \in DOMAIN body
            THEN [medicalHistory |-> body.medicalHistory]
            ELSE [medicalHistory |-> <<>>]
        newPatient ==
            Assign(
              Assign([patientId |-> id,
                      name |-> body.name,
                      age |-> body.age,
                      assignedDoctor |-> body.assignedDoctor,
                      reports |-> <<>>],
                     "medicalHistory", withHistory, "medicalHistory"),
              "currentTreatment", body, "currentTreatment")
    IN  /\ validatePatientInput(patientInput)
        /\ issuedPatients < MaxPatients
        /\ patients' = insert(patients, newPatient.patientId, newPatient)
        /\ NoLog
        /\ res' = caught("createPatient")
        /\ issuedPatients' = issuedPatients + 1
        /\ UNCHANGED <<doctors, issuedDoctors>>

UpdatePatientLogThrows(patientId, body) ==
    LET patientInput == Assign(body, "patientId", [patientId |-> patientId], "patientId")
    IN  /\ validatePatientInput(patientInput)
        /\ containsKey(patients, patientId)
        /\ LET patient ==
                   Assign(Assign(Assign(Assign(Assign(patients[patientId],
                       "name", body, "name"),
                       "age", body, "age"),
                       "medicalHistory", body, "medicalHistory"),
                       "currentTreatment", body, "currentTreatment"),
                       "assignedDoctor", body, "assignedDoctor")
           IN  patients' = insert(patients, patientId, patient)
        /\ NoLog
        /\ res' = caught("updatePatient")
        /\ UNCHANGED <<doctors, issuedDoctors, issuedPatients>>

AddReportLogThrows(patientId, report) ==
    /\ containsKey(patients, patientId)
    /\ Len(patients[patientId].reports) < MaxReports
    /\ LET patient == [patients[patientId] EXCEPT
                           !.reports = push(patients[patientId].reports, report)]
       IN  patients' = insert(patients, patientId, patient)
    /\ NoLog
    /\ res' = caught("addReport")
    /\ UNCHANGED <<doctors, issuedDoctors, issuedPatients>>

DeleteReportLogThrows(patientId, reportId) ==
    /\ containsKey(patients, patientId)
    /\ LET reportIndex == parseInt(reportId)
       IN  /\ IndexInRange(reportIndex, patients[patientId].reports)
           /\ LET patient ==
                      [patients[patientId] EXCEPT
                          !.reports = splice(patients[patientId].reports,
                                             reportIndex.value)]
              IN  patients' = insert(patients, patientId, patient)
    /\ NoLog
    /\ res' = caught("deleteReport")
    /\ UNCHANGED <<doctors, issuedDoctors, issuedPatients>>

AssignDoctorLogThrows(patientId, doctorId) ==
    /\ containsKey(patients, patientId)
    /\ containsKey(doctors, doctorId)
    /\ LET doctor == doctors[doctorId]
           patient == [patients[patientId] EXCEPT !.assignedDoctor = doctor.doctorId]
       IN  patients' = insert(patients, patientId, patient)
    /\ NoLog
    /\ res' = caught("assignDoctor")
    /\ UNCHANGED <<doctors, issuedDoctors, issuedPatients>>

GenerateReportsLogThrows ==
    /\ NoLog
    /\ res' = caught("generateReports")
    /\ UNCHANGED <<doctors, patients, issuedDoctors, issuedPatients>>

DeletePatientLogThrows(patientId, doctorId) ==
    /\ containsKey(doctors, doctorId)
    /\ doctors[doctorId].role = FullAccess
    /\ patients' = remove(patients, patientId)
    /\ NoLog
    /\ res' = caught("deletePatient")
    /\ UNCHANGED <<doctors, issuedDoctors, issuedPatients>>

AuditWriteFails ==
    \/ \E body \in DoctorBodies : CreateDoctorLogThrows(body)
    \/ \E body \in PatientBodies : CreatePatientLogThrows(body)
    \/ \E patientId \in PatientIds, body \in PatientBodies :
          UpdatePatientLogThrows(patientId, body)
    \/ \E patientId \in PatientIds, report \in Reports :
          AddReportLogThrows(patientId, report)
    \/ \E patientId \in PatientIds, reportId \in ReportIds :
          DeleteReportLogThrows(patientId, reportId)
    \/ \E patientId \in PatientIds, doctorId \in DoctorIds :
          AssignDoctorLogThrows(patientId, doctorId)
    \/ GenerateReportsLogThrows
    \/ \E patientId \in PatientIds, doctorId \in DoctorIds :
          DeletePatientLogThrows(patientId, doctorId)

NextAuditFailure == Next \/ AuditWriteFails

\* The state after construction when the clock already reads the last instant
\* that is modelled, so that every entry is logged under that one instant.
InitLastInstant ==
    /\ doctors = EmptyMap
    /\ patients = EmptyMap
    /\ auditLogs = EmptyMap
    /\ now = MaxTime
    /\ issuedDoctors = 0
    /\ issuedPatients = 0
    /\ res = Response("none", 0, [message |-> ""])

SpecAuditFailure == InitLastInstant /\ [][NextAuditFailure]_vars

(***************************************************************************)
(* Request bodies that are valid JSON but not of the declared types: a role *)
(* that is no member of the enum Role, an age below zero.  The handlers     *)
(* receive req.body unchecked, so callers may send them.                    *)
(***************************************************************************)
UntypedDoctorBodies ==
    {[name |-> "Dr. A", role |-> "Janitor", department |-> "Cardio"]}

UntypedPatientBodies ==
    {[name |-> "P1", age |-> -1, currentTreatment |-> "rest", assignedDoctor |-> "d1"]}

NextUntyped ==
    \/ Next
    \/ \E body \in UntypedDoctorBodies : CreateDoctor(body)
    \/ \E body \in UntypedPatientBodies : CreatePatient(body)
    \/ \E patientId \in PatientIds, body \in UntypedPatientBodies :
          UpdatePatient(patientId, body)

SpecUntyped == InitLastInstant /\ [][NextUntyped]_vars

(***************************************************************************)
(* POST /addDoctor (src/backup.ts): the doctor registry of the handler      *)
(* file that holds deletePatient.  The caller chooses the doctorId, which   *)
(* Principal.fromText parses (it throws on a text that is no principal),    *)
(* and doctors.insert overwrites a record already stored under that id.     *)
(***************************************************************************)
fromText(text) ==
    IF text \in DoctorIds
    THEN [ok |-> TRUE, principal |-> text]
    ELSE [ok |-> FALSE, message |-> "invalid principal text"]

AddDoctorBodies ==
    {[doctorId |-> d, name |-> "Dr. A", role |-> r, department |-> "Cardio"]
        : d \in DoctorIds, r \in Role}
    \cup {[name |-> "Dr. A", role |-> FullAccess, department |-> "Cardio"],
          [doctorId |-> "zz", name |-> "Dr. A", role |-> FullAccess,
           department |-> "Cardio"]}

AddDoctor(body) ==
    IF \/ NotString(body, "doctorId") \/ NotString(body, "name")
       \/ NotString(body, "role") \/ NotString(body, "department")
    THEN /\ res' = Response("addDoctor", 400, [error |-> "Invalid input"])
         /\ NoLog
         /\ UNCHANGED <<doctors, patients, issuedDoctors, issuedPatients>>
    ELSE IF ~fromText(body.doctorId).ok
    THEN /\ res' = Response("addDoctor", 500,
                            [error |-> fromText(body.doctorId).message])
         /\ NoLog
         /\ UNCHANGED <<doctors, patients, issuedDoctors, issuedPatients>>
    ELSE LET newDoctor == [doctorId |-> fromText(body.doctorId).principal,
                           name |-> body.name,
                           role |-> body.role,
                           department |-> body.department]
         IN  /\ doctors' = insert(doctors, newDoctor.doctorId, newDoctor)
             /\ \E timestamp \in Instants :
                    logAction(newDoctor.doctorId, "Added new doctor", timestamp)
             /\ res' = Response("addDoctor", 201,
                                [message |-> "Doctor added successfully"])
             /\ UNCHANGED <<patients, issuedDoctors, issuedPatients>>

\* The handlers with the doctors registered through addDoctor instead of
\* createDoctor.
NextBackup ==
    \/ \E body \in AddDoctorBodies : AddDoctor(body)
    \/ \E doctorId \in DoctorIds : GetDoctor(doctorId)
    \/ \E body \in PatientBodies : CreatePatient(body)
    \/ \E patientId \in PatientIds : GetPatient(patientId)
    \/ \E patientId \in PatientIds, body \in PatientBodies : UpdatePatient(patientId, body)
    \/ \E patientId \in PatientIds, report \in Reports : AddReport(patientId, report)
    \/ \E patientId \in PatientIds : ListReports(patientId)
    \/ \E patientId \in PatientIds, reportId \in ReportIds : DeleteReport(patientId, reportId)
    \/ \E patientId \in PatientIds, doctorId \in DoctorIds : AssignDoctor(patientId, doctorId)
    \/ GenerateReports
    \/ \E patientId \in PatientIds, doctorId \in DoctorIds : DeletePatient(patientId, doctorId)

SpecBackup == InitLastInstant /\ [][NextBackup]_vars

(***************************************************************************)
(* The handlers with one more patient id to issue than Spec has, so that    *)
(* two patients are in the store together; the patient requests are drawn  *)
(* from fewer bodies, reports and indices to make room for the second.      *)
(***************************************************************************)
MorePatients == MaxPatients + 1

MorePatientIds == {PatientUuid(n) : n \in 1..MorePatients}

FewPatientBodies ==
    {[name |-> "P1", age |-> 40, currentTreatment |-> "rest", assignedDoctor |-> "d1"],
     [name |-> "P1", age |-> 40, medicalHistory |-> <<"flu">>,
      currentTreatment |-> "rest", assignedDoctor |-> "d2"],
     [name |-> "P1", age |-> 0, currentTreatment |-> "rest", assignedDoctor |-> "d1"]}

FewReports == {"r1"}

FewReportIds == {<<"0">>, <<"2">>}

NextMorePatients ==
    \/ \E body \in DoctorBodies : CreateDoctor(body)
    \/ \E doctorId \in DoctorIds : GetDoctor(doctorId)
    \/ \E body \in FewPatientBodies : CreatePatientUpTo(body, MorePatients)
    \/ \E patientId \in MorePatientIds : GetPatient(patientId)
    \/ \E patientId \in MorePatientIds, body \in FewPatientBodies :
          UpdatePatient(patientId, body)
    \/ \E patientId \in MorePatientIds, report \in FewReports :
          AddReport(patientId, report)
    \/ \E patientId \in MorePatientIds : ListReports(patientId)
    \/ \E patientId \in MorePatientIds, reportId \in FewReportIds :
          DeleteReport(patientId, reportId)
    \/ \E patientId \in MorePatientIds, doctorId \in DoctorIds :
          AssignDoctor(patientId, doctorId)
    \/ GenerateReports
    \/ \E patientId \in MorePatientIds, doctorId \in DoctorIds :
          DeletePatient(patientId, doctorId)

SpecMorePatients == InitLastInstant /\ [][NextMorePatients]_vars

(***************************************************************************)
(* The claims.                                                             *)
(***************************************************************************)

\* C1: deletePatient by an existing doctor whose role is ReadOnly or
\* ExternalConsultant answers 403 and leaves the patient store as it was, so
\* the patient is still retrievable with the same record; by an existing
\* FullAccess doctor it answers 200 and getPatient of that id then answers 404.
C1_DeletePermissionGate ==
    [][res'.op = "deletePatient" =>
       \A p \in PatientIds, d \in DoctorIds :
          (DeletePatient(p, d) /\ containsKey(doctors, d)) =>
              IF doctors[d].role \in {ReadOnly, ExternalConsultant}
              THEN /\ res'.status = 403
                   /\ patients' = patients
                   /\ getPatient(patients', p) = getPatient(patients, p)
              ELSE /\ doctors[d].role = FullAccess
                   /\ res'.status = 200
                   /\ getPatient(patients', p).status = 404]_vars

\* A denied delete was answered while a patient is in the store.
C1_Witness ==
    /\ res.op = "deletePatient"
    /\ res.status = 403
    /\ patients # EmptyMap

(***************************************************************************)
(* This step put exactly one more entry in the audit log, and it is entry. *)
(***************************************************************************)
AppendedOne(entry) ==
    /\ Cardinality(DOMAIN auditLogs') = Cardinality(DOMAIN auditLogs) + 1
    /\ \E t \in DOMAIN auditLogs' \ DOMAIN auditLogs : auditLogs'[t] = entry

\* C2: every successful createDoctor, createPatient, updatePatient, addReport,
\* deleteReport, assignDoctor and deletePatient, and every generateSummaryReport,
\* makes the audit log exactly one entry longer, the new entry being
\* "<actor> - <action>" with the actor and the action of that operation.
C2_OneAuditEntryPerMutation ==
    [][/\ \A body \in DoctorBodies :
              (CreateDoctor(body) /\ res'.status = 201) =>
                  AppendedOne(res'.body.doctorId \o " - Added new doctor")
       /\ \A body \in PatientBodies :
              (CreatePatient(body) /\ res'.status = 201) =>
                  AppendedOne(body.assignedDoctor \o " - Added patient record: "
                                  \o res'.body.newPatient.patientId)
       /\ \A p \in PatientIds, body \in PatientBodies :
              (UpdatePatient(p, body) /\ res'.status = 200) =>
                  AppendedOne(body.assignedDoctor \o " - Updated patient record: " \o p)
       /\ \A p \in PatientIds, r \in Reports :
              (AddReport(p, r) /\ res'.status = 200) =>
                  AppendedOne(patients[p].assignedDoctor
                                  \o " - Added report for patient: " \o p)
       /\ \A p \in PatientIds, i \in ReportIds :
              (DeleteReport(p, i) /\ res'.status = 200) =>
                  AppendedOne(patients[p].assignedDoctor
                                  \o " - Deleted report for patient: " \o p)
       /\ \A p \in PatientIds, d \in DoctorIds :
              (AssignDoctor(p, d) /\ res'.status = 200) =>
                  AppendedOne(d \o " - Assigned to patient: " \o p)
       /\ \A p \in PatientIds, d \in DoctorIds :
              (DeletePatient(p, d) /\ res'.status = 200) =>
                  AppendedOne(d \o " - Deleted patient record: " \o p)
       /\ GenerateReports => AppendedOne("admin - Generated patient reports")]_vars

\* C3: the audit log is append-only: an entry that is in the log is there, under
\* the same key and with the same value, after every step, two operations that
\* log in the same instant included.
C3_AuditAppendOnly ==
    [][\A t \in DOMAIN auditLogs :
          t \in DOMAIN auditLogs' /\ auditLogs'[t] = auditLogs[t]]_vars

\* C4: createPatient, updatePatient and assignDoctor write as assignedDoctor only
\* the id of a doctor that is in the doctor store at that moment.
C4_AssignedDoctorExists ==
    [][/\ \A body \in PatientBodies :
              (CreatePatient(body) /\ res'.status = 201) =>
                  containsKey(doctors, res'.body.newPatient.assignedDoctor)
       /\ \A p \in PatientIds, body \in PatientBodies :
              (UpdatePatient(p, body) /\ res'.status = 200) =>
                  containsKey(doctors, patients'[p].assignedDoctor)
       /\ \A p \in PatientIds, d \in DoctorIds :
              (AssignDoctor(p, d) /\ res'.status = 200) =>
                  containsKey(doctors, patients'[p].assignedDoctor)]_vars

\* C5: assignDoctor(p, d) with patient p and doctor d both in their stores
\* answers 200, and then getPatient(p).assignedDoctor is d and every other field
\* of p is as before; with either absent it answers 404 and changes no patient.
C5_AssignDoctor ==
    [][res'.op = "assignDoctor" =>
       \A p \in PatientIds, d \in DoctorIds :
          AssignDoctor(p, d) =>
              IF containsKey(patients, p) /\ containsKey(doctors, d)
              THEN /\ res'.status = 200
                   /\ getPatient(patients', p).status = 200
                   /\ getPatient(patients', p).body.assignedDoctor = d
                   /\ DOMAIN patients'[p] = DOMAIN patients[p]
                   /\ \A f \in DOMAIN patients[p] \ {"assignedDoctor"} :
                          patients'[p][f] = patients[p][f]
              ELSE /\ res'.status = 404
                   /\ patients' = patients]_vars

\* An assignment was accepted and the patient's doctor is in the doctor store.
C5_Witness ==
    /\ res.op = "assignDoctor"
    /\ res.status = 200
    /\ \E p \in DOMAIN patients : containsKey(doctors, patients[p].assignedDoctor)

\* C6: deleteReport(p, i) on a patient in the store, with 0 <= i < len(reports),
\* answers 200 and removes exactly the element at position i: the sequence is
\* one shorter, the elements before i stay, each element after i moves down one.
C6_DeleteReportShifts ==
    [][res'.op = "deleteReport" =>
       \A p \in PatientIds, reportId \in ReportIds :
          (/\ DeleteReport(p, reportId)
           /\ containsKey(patients, p)
           /\ ~parseInt(reportId).isNaN
           /\ 0 <= parseInt(reportId).value
           /\ parseInt(reportId).value < Len(patients[p].reports)) =>
              LET i == parseInt(reportId).value
                  before == patients[p].reports
                  after == listReports(patients', p).body.array
              IN  /\ res'.status = 200
                  /\ Len(after) = Len(before) - 1
                  /\ \A j \in 0..(Len(after) - 1) :
                         after[j + 1] = IF j < i THEN before[j + 1] ELSE before[j + 2]]_vars

\* A report was deleted and another report of that patient is still there.
C6_Witness ==
    /\ res.op = "deleteReport"
    /\ res.status = 200
    /\ \E p \in DOMAIN patients : Len(patients[p].reports) > 0

\* C7: deleteReport(p, i) on a patient in the store, with i negative, equal to
\* or above len(reports), or not a number, answers 404 "Report not found" and
\* leaves the three stores, the audit log included, as they were.
C7_DeleteReportOutOfRange ==
    [][res'.op = "deleteReport" =>
       \A p \in PatientIds, reportId \in ReportIds :
          (/\ DeleteReport(p, reportId)
           /\ containsKey(patients, p)
           /\ \/ parseInt(reportId).isNaN
              \/ parseInt(reportId).value < 0
              \/ parseInt(reportId).value >= Len(patients[p].reports)) =>
              /\ res' = Response("deleteReport", 404, [error |-> "Report not found"])
              /\ UNCHANGED stores]_vars

\* An out-of-range delete was refused on a patient that has a report.
C7_Witness ==
    /\ res = Response("deleteReport", 404, [error |-> "Report not found"])
    /\ \E p \in DOMAIN patients : Len(patients[p].reports) > 0

\* C8: after addReport(p, r) on a patient in the store, listReports(p) is the
\* former sequence with r appended: one longer, r last, the earlier elements at
\* their positions.
C8_AddReportAppends ==
    [][res'.op = "addReport" =>
       \A p \in PatientIds, r \in Reports :
          (AddReport(p, r) /\ containsKey(patients, p)) =>
              LET before == patients[p].reports
                  after == listReports(patients', p).body.array
              IN  /\ res'.status = 200
                  /\ listReports(patients', p).status = 200
                  /\ Len(after) = Len(before) + 1
                  /\ after[Len(after)] = r
                  /\ \A j \in 1..Len(before) : after[j] = before[j]]_vars

\* A report was appended to a patient that already had one.
C8_Witness ==
    /\ res.op = "addReport"
    /\ res.status = 200
    /\ Len(res.body.array) >= 2
    /\ res.body.array[1] # res.body.array[2]

(***************************************************************************)
(* A createPatient input with name, age or assignedDoctor missing or       *)
(* empty, or with age 0.                                                   *)
(***************************************************************************)
LacksRequiredField(body) ==
    \/ "name" \notin DOMAIN body
    \/ "age" \notin DOMAIN body
    \/ "assignedDoctor" \notin DOMAIN body
    \/ body.name = ""
    \/ body.age = 0
    \/ body.assignedDoctor = ""

\* C9: createPatient with name, age or assignedDoctor missing or empty, or with
\* age 0, answers 400 "Invalid patient data", stores no patient and appends no
\* audit entry.
C9_CreatePatientValidation ==
    [][res'.op = "createPatient" =>
       \A body \in PatientBodies :
          (CreatePatient(body) /\ LacksRequiredField(body)) =>
              /\ res' = Response("createPatient", 400, [error |-> "Invalid patient data"])
              /\ UNCHANGED stores]_vars

\* A createPatient was refused as invalid.
C9_Witness ==
    res = Response("createPatient", 400, [error |-> "Invalid patient data"])

\* C10: createDoctor with non-empty name, role and department answers 201 with
\* the record it stored, getDoctor of that record's doctorId answers the same
\* record, and getDoctor of a doctor in the store answers the same record after
\* every later step.
C10_DoctorRoundTrip ==
    [][/\ res'.op = "createDoctor" =>
          \A body \in DoctorBodies :
             (/\ CreateDoctor(body)
              /\ DOMAIN body = {"name", "role", "department"}
              /\ body.name # "" /\ body.role # "" /\ body.department # "") =>
                 /\ res'.status = 201
                 /\ res'.body.name = body.name
                 /\ res'.body.role = body.role
                 /\ res'.body.department = body.department
                 /\ getDoctor(doctors', res'.body.doctorId)
                        = Response("getDoctor", 200, res'.body)
       /\ \A d \in DOMAIN doctors : getDoctor(doctors', d) = getDoctor(doctors, d)]_vars

\* A second doctor was created and the first is still in the store.
C10_Witness ==
    /\ res.op = "createDoctor"
    /\ res.status = 201
    /\ Cardinality(DOMAIN doctors) = 2
    /\ getDoctor(doctors, res.body.doctorId).body = res.body

\* The property f of object o is the property f of object src, undefined when
\* src has none.
SameField(o, src, f) ==
    IF f \in DOMAIN src
    THEN f \in DOMAIN o /\ o[f] = src[f]
    ELSE f \notin DOMAIN o

C12_LogFailureNotReported ==
    [][AuditWriteFails => res'.status \in {200, 201}]_vars

\* C13: an operation that answers 404 (NotFound) or 403 (PermissionDenied)
\* leaves the doctor store, the patient store and the audit log exactly as
\* they were; in particular a refused deletePatient logs nothing.
C13_RefusalChangesNothing ==
    [][res'.status \in {403, 404} =>
          /\ doctors' = doctors
          /\ patients' = patients
          /\ auditLogs' = auditLogs]_vars

\* A deletePatient was refused for lack of permission while there is a patient
\* to delete and an audit log to add to.
C13_Witness ==
    /\ res.op = "deletePatient"
    /\ res.status = 403
    /\ patients # EmptyMap
    /\ auditLogs # EmptyMap
    /\ \E d \in DOMAIN doctors : doctors[d].role # FullAccess

\* The summaries are one per patient of the store, in the store's order, each
\* with the patientId, name, currentTreatment, assignedDoctor and reports of
\* the stored record.
SummariesOf(data, map) ==
    /\ Len(data) = Cardinality(DOMAIN map)
    /\ [j \in 1..Len(data) |-> data[j].patientId] = keys(map)
    /\ \A j \in 1..Len(data) :
          LET patient == map[data[j].patientId]
          IN  /\ data[j].name = patient.name
              /\ SameField(data[j], patient, "currentTreatment")
              /\ data[j].assignedDoctor = patient.assignedDoctor
              /\ data[j].reports = patient.reports
              /\ DOMAIN data[j] \subseteq {"patientId", "name", "currentTreatment",
                                          "assignedDoctor", "reports"}

\* C14: generateSummaryReport answers one summary per patient of the store, in
\* store order and with the current values, leaves the patient and doctor
\* stores as they were, and makes the audit log one entry longer, the new
\* entry being "admin - Generated patient reports".
C14_GenerateSummaryReport ==
    [][(res'.op = "generateReports" /\ GenerateReports) =>
          /\ res'.status = 200
          /\ SummariesOf(res'.body.reportData, patients)
          /\ patients' = patients
          /\ doctors' = doctors
          /\ AppendedOne("admin - Generated patient reports")]_vars

\* C15: getDoctor, getPatient and listReports, whether they answer 200 or 404,
\* leave the doctor store, the patient store and the audit log as they were.
C15_ReadsChangeNothing ==
    [][res'.op \in {"getDoctor", "getPatient", "listReports"} =>
          /\ doctors' = doctors
          /\ patients' = patients
          /\ auditLogs' = auditLogs]_vars

\* A patient that has a report was read successfully while the audit log has
\* entries.
C15_Witness ==
    /\ res.op = "getPatient"
    /\ res.status = 200
    /\ Len(res.body.reports) > 0
    /\ auditLogs # EmptyMap

\* C16: deletePatient of a patient that is not in the store, by an existing
\* FullAccess doctor d, answers 200, leaves the patient store as it was, and
\* makes the audit log one entry longer, the new entry being
\* "<d> - Deleted patient record: <p>".
C16_DeleteAbsentPatient ==
    [][res'.op = "deletePatient" =>
       \A p \in PatientIds, d \in DoctorIds :
          (/\ DeletePatient(p, d)
           /\ containsKey(doctors, d)
           /\ doctors[d].role = FullAccess
           /\ ~containsKey(patients, p)) =>
              /\ res'.status = 200
              /\ patients' = patients
              /\ AppendedOne(d \o " - Deleted patient record: " \o p)]_vars

\* C17: whether createPatient, updatePatient, addReport, deleteReport and
\* assignDoctor succeed or fail is settled by the input, by which patients are
\* in the store and by which doctor ids are in the store: the answer's status
\* is the same whatever the role of any doctor, and is never 403.
C17_RoleIndependent ==
    [][/\ res'.op = "createPatient" =>
          \A body \in PatientBodies :
             \/ res'.status = IF LacksRequiredField(body) THEN 400 ELSE 201
             \/ ~CreatePatient(body)
       /\ res'.op = "updatePatient" =>
          \A p \in PatientIds, body \in PatientBodies :
             \/ res'.status = IF LacksRequiredField(body) THEN 400
                              ELSE IF p \in DOMAIN patients THEN 200 ELSE 404
             \/ ~UpdatePatient(p, body)
       /\ res'.op = "addReport" =>
          \A p \in PatientIds, r \in Reports :
             \/ res'.status = IF p \in DOMAIN patients THEN 200 ELSE 404
             \/ ~AddReport(p, r)
       /\ res'.op = "deleteReport" =>
          \A p \in PatientIds, i \in ReportIds :
             \/ res'.status = IF /\ p \in DOMAIN patients
                                 /\ IndexInRange(parseInt(i), patients[p].reports)
                              THEN 200 ELSE 404
             \/ ~DeleteReport(p, i)
       /\ res'.op = "assignDoctor" =>
          \A p \in PatientIds, d \in DoctorIds :
             \/ res'.status = IF p \in DOMAIN patients /\ d \in DOMAIN doctors
                              THEN 200 ELSE 404
             \/ ~AssignDoctor(p, d)]_vars

\* A doctor whose role is ReadOnly was assigned to a patient, and reports were
\* added for the patient of a doctor whose role is not FullAccess.
C17_Witness ==
    /\ res.op = "assignDoctor"
    /\ res.status = 200
    /\ \E p \in DOMAIN patients :
          /\ patients[p].assignedDoctor \in DOMAIN doctors
          /\ doctors[patients[p].assignedDoctor].role = ReadOnly
          /\ Len(patients[p].reports) > 0

\* C18: in every reachable state every doctor record of the store has a role
\* that is one of FullAccess, ReadOnly and ExternalConsultant.
C18_RoleInEnum ==
    \A d \in DOMAIN doctors : doctors[d].role \in Role

\* C19: in every reachable state every patient record of the store has an age
\* greater than zero.
C19_AgePositive ==
    \A p \in DOMAIN patients : patients[p].age > 0

\* C20: the audit entry that a successful addReport or deleteReport writes
\* names as actor the assignedDoctor the patient's record holds when the call
\* is made; and a successful assignDoctor(p, d), or updatePatient of p with
\* assignedDoctor d, leaves d as the assignedDoctor of the record.  So the
\* next successful addReport or deleteReport on p is logged with actor d.
C20_ReportActor ==
    [][/\ (res'.op = "addReport" /\ res'.status = 200) =>
          \A p \in PatientIds, r \in Reports :
             AddReport(p, r) =>
                auditLogs'[now'] = patients[p].assignedDoctor
                                      \o " - Added report for patient: " \o p
       /\ (res'.op = "deleteReport" /\ res'.status = 200) =>
          \A p \in PatientIds, i \in ReportIds :
             DeleteReport(p, i) =>
                auditLogs'[now'] = patients[p].assignedDoctor
                                      \o " - Deleted report for patient: " \o p
       /\ (res'.op = "assignDoctor" /\ res'.status = 200) =>
          \A p \in PatientIds, d \in DoctorIds :
             AssignDoctor(p, d) => patients'[p].assignedDoctor = d
       /\ (res'.op = "updatePatient" /\ res'.status = 200) =>
          \A p \in PatientIds, body \in PatientBodies :
             UpdatePatient(p, body) =>
                patients'[p].assignedDoctor = body.assignedDoctor]_vars

\* The doctor d2 was assigned to a patient created for d1, and the addReport
\* that followed is logged with actor d2.
C20_Witness ==
    /\ res.op = "addReport"
    /\ res.status = 200
    /\ \E p \in DOMAIN patients, t \in DOMAIN auditLogs :
          /\ t < now
          /\ auditLogs[t] = "d2 - Assigned to patient: " \o p
          /\ patients[p].assignedDoctor = "d2"
          /\ auditLogs[now] = "d2 - Added report for patient: " \o p

C22_DoctorImmutable ==
    [][\A d \in DOMAIN doctors :
          /\ d \in DOMAIN doctors'
          /\ doctors'[d] = doctors[d]]_vars

\* This step left every patient other than p as it was: in the store with the
\* same record, or not in the store.
OthersUnchanged(p) ==
    \A q \in MorePatientIds \ {p} :
       /\ containsKey(patients', q) <=> containsKey(patients, q)
       /\ containsKey(patients, q) => patients'[q] = patients[q]

\* C23: every operation changes at most the patient record it targets: a
\* createPatient that answers 201 adds one new patient key and leaves every
\* record that was in the store as it was; updatePatient, addReport,
\* deleteReport, assignDoctor and deletePatient on patient p leave every other
\* patient as it was; all of these leave the doctor store as it was; and every
\* record is stored under its own patientId.
C23_OnePatientPerOperation ==
    [][/\ (res'.op = "createPatient" /\ res'.status = 201) =>
          /\ Cardinality(DOMAIN patients' \ DOMAIN patients) = 1
          /\ \A q \in DOMAIN patients :
                containsKey(patients', q) /\ patients'[q] = patients[q]
          /\ doctors' = doctors
       /\ res'.op = "updatePatient" =>
          \A p \in MorePatientIds, body \in FewPatientBodies :
             UpdatePatient(p, body) => OthersUnchanged(p) /\ doctors' = doctors
       /\ res'.op = "addReport" =>
          \A p \in MorePatientIds, r \in FewReports :
             AddReport(p, r) => OthersUnchanged(p) /\ doctors' = doctors
       /\ res'.op = "deleteReport" =>
          \A p \in MorePatientIds, i \in FewReportIds :
             DeleteReport(p, i) => OthersUnchanged(p) /\ doctors' = doctors
       /\ res'.op = "assignDoctor" =>
          \A p \in MorePatientIds, d \in DoctorIds :
             AssignDoctor(p, d) => OthersUnchanged(p) /\ doctors' = doctors
       /\ res'.op = "deletePatient" =>
          \A p \in MorePatientIds, d \in DoctorIds :
             DeletePatient(p, d) => OthersUnchanged(p) /\ doctors' = doctors
       /\ \A k \in DOMAIN patients' : patients'[k].patientId = k]_vars

\* One of two patients was deleted and the other, which has a report, is
\* still in the store.
C23_Witness ==
    /\ res.op = "deletePatient"
    /\ res.status = 200
    /\ issuedPatients = 2
    /\ \E q \in MorePatientIds :
          /\ DOMAIN patients = {q}
          /\ Len(patients[q].reports) > 0

=============================================================================
